---- MODULE Spec2Model ----
(***************************************************************************)
(* Address book of one user of the mymart shop: the four handlers of the   *)
(* addresses route (GET / POST / PUT / DELETE) and the pre-save hook of    *)
(* the User schema that keeps a single default address.                    *)
(*                                                                         *)
(* Encoding.  A JavaScript string is a sequence of one-character strings.  *)
(* An optional request field is a sequence of length <= 1: <<>> is a field *)
(* that is absent from the body (undefined), <<v>> a field with value v.   *)
(* An address id is an integer: n > 0 is the n-th ObjectId handed out by   *)
(* the store, 0 is the missing / empty id, -1 a string that is not of the  *)
(* ObjectId format.                                                        *)
(***************************************************************************)
EXTENDS Integers, Sequences, FiniteSets, TLC

VARIABLES addresses,   \* persisted address list of the user document
          nextId,      \* number of the next ObjectId the store hands out
          prev,        \* address list as persisted before the last request
          last,        \* the last request and its response
          hookOrig,    \* pre-save pass: address list of the document as loaded
          hookDoc,     \* pre-save pass: address list in memory
          hookIn,      \* pre-save pass: address list save() was called on
          hookPhase,   \* pre-save pass: "loaded", "modified" or "saved"
          orders,      \* Order collection: order id -> document
          clock,       \* value of new Date() in the next order request
          changedAt,   \* order id -> time of the last request that changed its status
          oPrev,       \* Order collection before the last order request
          oLast,       \* the last order request and its response
          products,    \* Product collection: a set of documents
          nextOid,     \* number of the next ObjectId a created product gets
          pending,     \* client -> body of a create that passed the existence check
          pPrev,       \* Product collection before the last product request
          pLast,       \* the last product request and its response
          users,       \* User collection: user id -> document
          uPending,    \* client -> user update that passed the email check
          uPrev,       \* User collection before the last user request
          uLast,       \* the last user request and its response
          inflight,    \* client -> address request between its read and its save
          rLast,       \* the last step of an interleaved address request
          images,      \* add-product form: formData.images, a list of urls
          image,       \* add-product form: formData.image, 0 for the empty string
          uploadingImages, \* add-product form: the uploadingImages flag
          uploadBatches,   \* add-product form: the upload batches not yet completed
          nextFile,    \* add-product form: number of the next file picked
          catalog,     \* management page: number of products the server holds
          pageProducts,    \* management page: length of the products state
          currentPage, \* management page: the currentPage state
          loading,     \* management page: the loading state
          pageError,   \* management page: the error state
          deleting,    \* management page: whether the deleting state names a row
          deletes,     \* management page: DELETE requests not yet answered
          fetches      \* management page: product fetches in flight, -1 until served

addrVars == <<addresses, nextId, prev, last>>
hookVars == <<hookOrig, hookDoc, hookIn, hookPhase>>

orderVars == <<orders, clock, changedAt, oPrev, oLast>>
productVars == <<products, nextOid, pending, pPrev, pLast>>
userVars == <<users, uPending, uPrev, uLast>>
addrRaceVars == <<inflight, rLast>>
formVars == <<images, image, uploadingImages, uploadBatches, nextFile>>
pageVars == <<catalog, pageProducts, currentPage, loading, pageError, deleting, deletes, fetches>>
extVars == <<userVars, addrRaceVars, formVars, pageVars>>
nonAddrVars == <<hookVars, orderVars, productVars, extVars>>
notUserVars == <<addrVars, hookVars, orderVars, productVars, addrRaceVars, formVars, pageVars>>
notAddrRaceVars == <<prev, last, hookVars, orderVars, productVars, userVars, formVars, pageVars>>
notFormVars == <<addrVars, hookVars, orderVars, productVars, userVars, addrRaceVars, pageVars>>
notPageVars == <<addrVars, hookVars, orderVars, productVars, userVars, addrRaceVars, formVars>>

vars == <<addrVars, hookVars, orderVars, productVars, extVars>>

(***************************************************************************)
(* Bounds.                                                                 *)
(***************************************************************************)
MaxAdds == 3   \* addAddress requests are issued while nextId <= MaxAdds
MaxHookLen == 3   \* longest address list handed to the pre-save pass
MaxTime == 3   \* order requests are issued while clock <= MaxTime
MaxCreates == 2   \* products are created while nextOid <= MaxCreates
MaxRaceAdds == 2   \* interleaved addAddress requests are issued while nextId <= MaxRaceAdds
MaxFiles == 3   \* files are picked for upload while nextFile <= MaxFiles
MaxInFlight == 2   \* a product is deleted while fewer requests of the page are in flight

(***************************************************************************)
(* HTTP status codes used by the handlers.                                 *)
(***************************************************************************)
Ok == 200
Created == 201
ValidationFailure == 400
Unauthorized == 401
NotFound == 404
InternalFailure == 500

None == <<>>
Some(v) == <<v>>
Has(f) == f # <<>>

UserEmail == "u@shop"
GhostEmail == "ghost@shop"

Digits == {"0", "1", "2"}
Space == " "

(***************************************************************************)
(* String helpers.                                                         *)
(***************************************************************************)
RECURSIVE TrimStart(_)
TrimStart(s) ==
  IF Len(s) > 0 /\ Head(s) = Space THEN TrimStart(Tail(s)) ELSE s

RECURSIVE TrimEnd(_)
TrimEnd(s) ==
  IF Len(s) > 0 /\ s[Len(s)] = Space THEN TrimEnd(SubSeq(s, 1, Len(s) - 1)) ELSE s

\* String.prototype.trim
Trim(s) == TrimEnd(TrimStart(s))

IsDigits_Unanchored(s) == \E i \in 1..Len(s) : s[i] \in Digits

\* /^\d+$/.test(s)
IsDigits(s) == Len(s) > 0 /\ \A i \in 1..Len(s) : s[i] \in Digits

Blank_NoTrim(s) == Len(s) = 0

\* !v || !v.trim() for a string v
Blank(s) == Len(s) = 0 \/ Len(Trim(s)) = 0

ValidLabels == {"home", "work", "other"}

\* validateAddressData: the list of error messages for the fields present
validateAddressData(data) ==
  (IF Has(data.street) /\ Blank(data.street[1]) THEN <<"Street is required">> ELSE <<>>)
  \o (IF Has(data.city) /\ Blank(data.city[1]) THEN <<"City is required">> ELSE <<>>)
  \o (IF Has(data.state) /\ Blank(data.state[1]) THEN <<"State is required">> ELSE <<>>)
  \o (IF Has(data.zipCode)
      THEN IF Blank(data.zipCode[1]) THEN <<"ZIP code is required">>
           ELSE IF ~IsDigits(Trim(data.zipCode[1]))
                THEN <<"ZIP code must contain only numbers">> ELSE <<>>
      ELSE <<>>)
  \o (IF Has(data.country) /\ Blank(data.country[1]) THEN <<"Country is required">> ELSE <<>>)
  \o (IF Has(data.label) /\ data.label[1] \notin ValidLabels
      THEN <<"Label must be one of: home, work, other">> ELSE <<>>)

\* session?.user?.email, "" when there is no session
Email(session) == IF Has(session) THEN session[1] ELSE ""

Authorized_Always(session) == TRUE

\* session?.user?.email is truthy
Authorized(session) == Email(session) # ""

\* User.findOne({ email }): the store holds the one user UserEmail
FindUser(email) == email = UserEmail

ObjectIdIsValid_Lenient(id) == TRUE

\* mongoose.Types.ObjectId.isValid
ObjectIdIsValid(id) == id > 0

\* user.addresses.findIndex(addr => addr._id?.toString() === addressId), 0 for -1
FindIndex(addrs, id) ==
  IF \E i \in 1..Len(addrs) : addrs[i]._id = id
  THEN CHOOSE i \in 1..Len(addrs) :
         addrs[i]._id = id /\ \A j \in 1..(i - 1) : addrs[j]._id # id
  ELSE 0

NumDefaults(addrs) == Cardinality({i \in 1..Len(addrs) : addrs[i].isDefault})

\* addrs.forEach(addr => addr.isDefault = false) for every index but keep
ClearDefaultsExcept(addrs, keep) ==
  [i \in 1..Len(addrs) |-> IF i = keep THEN addrs[i] ELSE [addrs[i] EXCEPT !.isDefault = FALSE]]

PreSave_KeepLast(orig, addrs) ==
  IF addrs # orig /\ NumDefaults(addrs) > 1
  THEN LET lastD == CHOOSE i \in 1..Len(addrs) :
                      addrs[i].isDefault /\ \A j \in (i + 1)..Len(addrs) : ~addrs[j].isDefault
       IN [i \in 1..Len(addrs) |-> [addrs[i] EXCEPT !.isDefault = (i = lastD)]]
  ELSE addrs

\* UserSchema.pre('save'): keep only the first default when several are flagged
PreSave(orig, addrs) ==
  IF addrs # orig /\ NumDefaults(addrs) > 1
  THEN LET first == CHOOSE i \in 1..Len(addrs) :
                      addrs[i].isDefault /\ \A j \in 1..(i - 1) : ~addrs[j].isDefault
       IN [i \in 1..Len(addrs) |-> [addrs[i] EXCEPT !.isDefault = (i = first)]]
  ELSE addrs

\* user.save(): the pre-save hook runs, then the document is written
Save(orig, addrs) == PreSave(orig, addrs)

Result(status, addrs, reads, writes) ==
  [status |-> status, addresses |-> addrs, reads |-> reads, writes |-> writes]

(***************************************************************************)
(* POST - add a new address.                                               *)
(***************************************************************************)
Bangladesh == <<"B", "a", "n", "g", "l", "a", "d", "e", "s", "h">>

\* the destructuring defaults of POST: country, isDefault, label, phone
WithDefaults(body) ==
  [body EXCEPT !.country = IF Has(body.country) THEN body.country ELSE Some(Bangladesh),
               !.isDefault = IF Has(body.isDefault) THEN body.isDefault ELSE Some(FALSE),
               !.label = IF Has(body.label) THEN body.label ELSE Some("home"),
               !.phone = IF Has(body.phone) THEN body.phone ELSE Some(<<>>)]

\* street!.trim() etc. throw a TypeError when the field is undefined
NewAddressThrows(b) ==
  ~Has(b.street) \/ ~Has(b.city) \/ ~Has(b.state) \/ ~Has(b.zipCode)

\* the newAddress object literal; b has the defaults applied
NewAddress(b, id) ==
  [_id |-> id,
   street |-> Trim(b.street[1]),
   city |-> Trim(b.city[1]),
   state |-> Trim(b.state[1]),
   zipCode |-> Trim(b.zipCode[1]),
   country |-> Trim(b.country[1]),
   isDefault |-> b.isDefault[1],
   label |-> b.label[1],
   phone |-> Trim(b.phone[1])]

AddDefaultHandling_NoClear(addrs, newAddress) ==
  Append(addrs, IF Len(addrs) = 0 THEN [newAddress EXCEPT !.isDefault = TRUE] ELSE newAddress)

AddDefaultHandling_NoForce(addrs, newAddress) ==
  Append(IF newAddress.isDefault /\ Len(addrs) > 0 THEN ClearDefaultsExcept(addrs, 0) ELSE addrs,
         newAddress)

\* POST: clear the other defaults, force the first address default, push
AddDefaultHandling(addrs, newAddress) ==
  LET cleared == IF newAddress.isDefault /\ Len(addrs) > 0
                 THEN ClearDefaultsExcept(addrs, 0)
                 ELSE addrs
      forced == IF Len(cleared) = 0
                THEN [newAddress EXCEPT !.isDefault = TRUE]
                ELSE newAddress
  IN Append(cleared, forced)

\* POST: default handling, push, save
PushAndSave(addrs, newAddress) == Save(addrs, AddDefaultHandling(addrs, newAddress))

PostAddresses(session, body, addrs, id) ==
  IF ~Authorized(session) THEN Result(Unauthorized, addrs, 0, 0)
  ELSE LET b == WithDefaults(body) IN
    IF Len(validateAddressData(b)) > 0 THEN Result(ValidationFailure, addrs, 0, 0)
    ELSE IF ~FindUser(Email(session)) THEN Result(NotFound, addrs, 1, 0)
    ELSE IF NewAddressThrows(b) THEN Result(InternalFailure, addrs, 1, 0)
    ELSE Result(Created, PushAndSave(addrs, NewAddress(b, id)), 1, 1)

(***************************************************************************)
(* PUT - update an address.                                                *)
(***************************************************************************)
\* the field assignments of PUT on the target address
ApplyFields(addr, body) ==
  [addr EXCEPT
     !.street = IF Has(body.street) THEN Trim(body.street[1]) ELSE @,
     !.city = IF Has(body.city) THEN Trim(body.city[1]) ELSE @,
     !.state = IF Has(body.state) THEN Trim(body.state[1]) ELSE @,
     !.zipCode = IF Has(body.zipCode) THEN Trim(body.zipCode[1]) ELSE @,
     !.country = IF Has(body.country) THEN Trim(body.country[1]) ELSE @,
     !.label = IF Has(body.label) THEN body.label[1] ELSE @,
     !.phone = IF Has(body.phone) THEN Trim(body.phone[1]) ELSE @]

UpdateDefaultHandling_NoClear(addrs, idx, isDefault) ==
  IF Has(isDefault) THEN [addrs EXCEPT ![idx].isDefault = isDefault[1]] ELSE addrs

UpdateDefaultHandling_DefaultFalse(addrs, idx, isDefault) ==
  [addrs EXCEPT ![idx].isDefault = IF Has(isDefault) THEN isDefault[1] ELSE FALSE]

\* PUT: "Handle default address change"
UpdateDefaultHandling(addrs, idx, isDefault) ==
  IF Has(isDefault)
  THEN LET cleared ==
             IF isDefault[1] /\ \E i \in 1..Len(addrs) : i # idx /\ addrs[i].isDefault
             THEN ClearDefaultsExcept(addrs, idx)
             ELSE addrs
       IN [cleared EXCEPT ![idx].isDefault = isDefault[1]]
  ELSE addrs

\* a positional update of the target that runs neither the clearing nor the hook
UpdateAndSave_PositionalSet(addrs, idx, body) ==
  [addrs EXCEPT ![idx] =
     [ApplyFields(@, body) EXCEPT
        !.isDefault = IF Has(body.isDefault) THEN body.isDefault[1] ELSE @]]

\* PUT: assign the fields, handle the default change, save
UpdateAndSave(addrs, idx, body) ==
  Save(addrs,
       UpdateDefaultHandling([addrs EXCEPT ![idx] = ApplyFields(@, body)], idx, body.isDefault))

PutAddresses(session, addressId, body, addrs) ==
  IF ~Authorized(session) THEN Result(Unauthorized, addrs, 0, 0)
  ELSE IF addressId = 0 THEN Result(ValidationFailure, addrs, 0, 0)
  ELSE IF ~ObjectIdIsValid(addressId) THEN Result(ValidationFailure, addrs, 0, 0)
  ELSE IF ~FindUser(Email(session)) THEN Result(NotFound, addrs, 1, 0)
  ELSE IF FindIndex(addrs, addressId) = 0 THEN Result(NotFound, addrs, 1, 0)
  ELSE IF Len(validateAddressData(body)) > 0 THEN Result(ValidationFailure, addrs, 1, 0)
  ELSE Result(Ok, UpdateAndSave(addrs, FindIndex(addrs, addressId), body), 1, 1)

(***************************************************************************)
(* DELETE - remove an address.                                             *)
(***************************************************************************)
\* addresses.splice(idx, 1)
Splice_Pop(addrs, idx) == SubSeq(addrs, 1, Len(addrs) - 1)

Splice(addrs, idx) == SubSeq(addrs, 1, idx - 1) \o SubSeq(addrs, idx + 1, Len(addrs))

RemoveAndPromote_NoPromote(addrs, idx) == Splice(addrs, idx)

\* DELETE: splice, then promote the first remaining address
RemoveAndPromote(addrs, idx) ==
  LET wasDefault == addrs[idx].isDefault
      rest == Splice(addrs, idx)
  IN IF wasDefault /\ Len(rest) > 0
     THEN [rest EXCEPT ![1].isDefault = TRUE]
     ELSE rest

\* DELETE: splice, promote, save
SpliceAndSave(addrs, idx) == Save(addrs, RemoveAndPromote(addrs, idx))

DeleteAddresses(session, addressId, addrs) ==
  IF ~Authorized(session) THEN Result(Unauthorized, addrs, 0, 0)
  ELSE IF addressId = 0 THEN Result(ValidationFailure, addrs, 0, 0)
  ELSE IF ~ObjectIdIsValid(addressId) THEN Result(ValidationFailure, addrs, 0, 0)
  ELSE IF ~FindUser(Email(session)) THEN Result(NotFound, addrs, 1, 0)
  ELSE IF FindIndex(addrs, addressId) = 0 THEN Result(NotFound, addrs, 1, 0)
  ELSE Result(Ok, SpliceAndSave(addrs, FindIndex(addrs, addressId)), 1, 1)

(***************************************************************************)
(* GET - list the addresses.                                               *)
(***************************************************************************)
GetAddresses(session, addrs) ==
  IF ~Authorized(session) THEN Result(Unauthorized, addrs, 0, 0)
  ELSE IF ~FindUser(Email(session)) THEN Result(NotFound, addrs, 1, 0)
  ELSE Result(Ok, addrs, 1, 0)

(***************************************************************************)
(* Requests.                                                               *)
(***************************************************************************)
Sessions == {None, Some(UserEmail), Some(GhostEmail)}

EmptyBody ==
  [street |-> None, city |-> None, state |-> None, zipCode |-> None,
   country |-> None, isDefault |-> None, label |-> None, phone |-> None]

BaseBody ==
  [EmptyBody EXCEPT !.street = Some(<<"s">>), !.city = Some(<<"c">>),
                    !.state = Some(<<"d">>), !.zipCode = Some(<<"1", "2">>)]

StreetIn == {None, Some(<<" ">>), Some(<<"s">>), Some(<<" ", "t", " ">>)}
CityIn == {None, Some(<<"c">>), Some(<<" ">>)}
StateIn == {None, Some(<<"d">>)}
ZipIn == {None, Some(<<>>), Some(<<"1", "2">>), Some(<<"1", "A">>), Some(<<" ", "1", "2", " ">>)}
CountryIn == {None, Some(<<" ">>)}
LabelIn == {None, Some("bad")}
IsDefaultIn == {None, Some(TRUE), Some(FALSE)}

FieldNames == {"street", "city", "state", "zipCode", "country", "label"}

Differences(b, base) == Cardinality({f \in FieldNames : b[f] # base[f]})

\* bodies of addAddress: a complete body with at most one field off
AddBodies ==
  {b \in [street : StreetIn, city : CityIn, state : StateIn, zipCode : ZipIn,
          country : CountryIn, isDefault : IsDefaultIn, label : LabelIn, phone : {None}] :
     Differences(b, BaseBody) <= 1}

\* updates of several fields of which one is blank or outside the label set
MixedBodies ==
  {[EmptyBody EXCEPT !.street = Some(<<" ", "t", " ">>), !.city = Some(<<" ">>),
                     !.isDefault = Some(TRUE)],
   [EmptyBody EXCEPT !.street = Some(<<" ", "t", " ">>), !.label = Some("bad"),
                     !.isDefault = Some(TRUE)]}

\* bodies of updateAddress: any subset of street, zipCode and isDefault, and MixedBodies
UpdateBodies ==
  [street : {None, Some(<<" ", "t", " ">>)}, city : {None}, state : {None},
   zipCode : {None, Some(<<"1", "A">>)}, country : {None}, isDefault : IsDefaultIn,
   label : {None}, phone : {None}]
  \cup MixedBodies

\* the ids a request can name: malformed, missing, handed out, not yet handed out
AddressIds(n) == (-1)..n

\* requests without a session, or with the session of an unknown user, carry BaseBody
BodiesOf(session, bodies) == IF session = Some(UserEmail) THEN bodies ELSE {BaseBody}

Request(op, session, addressId, body, r) ==
  [op |-> op, session |-> session, addressId |-> addressId, body |-> body,
   status |-> r.status, reads |-> r.reads, writes |-> r.writes]

(***************************************************************************)
(* Orders: GET / PUT / DELETE of one order by id.  Order ids are encoded   *)
(* like address ids; a time is the number of the request that read the     *)
(* clock.                                                                  *)
(***************************************************************************)
Conflict == 409

validStatuses_NoCancelled == {"pending", "confirmed", "processing", "shipped", "delivered"}

\* validStatuses of PUT
validStatuses == {"pending", "confirmed", "processing", "shipped", "delivered", "cancelled"}

\* the status enumeration of the Order schema
OrderSchemaStatuses ==
  {"pending", "confirmed", "processing", "shipped", "delivered", "cancelled"}

\* update validators of the Order schema on the paths an update sets
OrderSchemaValid(updateData) ==
  Has(updateData.status) => updateData.status[1] \in OrderSchemaStatuses

\* if (status): a string is truthy unless it is empty
Truthy(field) == Has(field) /\ field[1] # ""

\* the $set of the paths present in updateData
MergeOrder(order, updateData) ==
  [status |-> IF Has(updateData.status) THEN updateData.status[1] ELSE order.status,
   notes |-> IF Has(updateData.notes) THEN updateData.notes[1] ELSE order.notes,
   updatedAt |-> IF Has(updateData.updatedAt) THEN updateData.updatedAt[1] ELSE order.updatedAt,
   statusUpdatedAt |-> IF Has(updateData.statusUpdatedAt) THEN updateData.statusUpdatedAt[1]
                       ELSE order.statusUpdatedAt]

OrderResult(status, ords) == [status |-> status, orders |-> ords]

UpdateOrder_NoValidators(ords, id, updateData) ==
  IF id \notin DOMAIN ords THEN OrderResult(NotFound, ords)
  ELSE OrderResult(Ok, [ords EXCEPT ![id] = MergeOrder(@, updateData)])

\* Order.findByIdAndUpdate(id, updateData, { new: true, runValidators: true })
UpdateOrder(ords, id, updateData) ==
  IF ~OrderSchemaValid(updateData) THEN OrderResult(ValidationFailure, ords)
  ELSE IF id \notin DOMAIN ords THEN OrderResult(NotFound, ords)
  ELSE OrderResult(Ok, [ords EXCEPT ![id] = MergeOrder(@, updateData)])

\* updateData of PUT: the body, updatedAt, and statusUpdatedAt when status is truthy
PutUpdateData(body, now) ==
  [status |-> body.status, notes |-> body.notes, updatedAt |-> Some(now),
   statusUpdatedAt |-> IF Truthy(body.status) THEN Some(now) ELSE None]

PutOrder(id, body, ords, now) ==
  IF ~ObjectIdIsValid(id) THEN OrderResult(ValidationFailure, ords)
  ELSE IF Truthy(body.status) /\ body.status[1] \notin validStatuses
       THEN OrderResult(ValidationFailure, ords)
  ELSE UpdateOrder(ords, id, PutUpdateData(body, now))

CancelOrder_HardDelete(ords, id, now) ==
  IF id \notin DOMAIN ords THEN OrderResult(NotFound, ords)
  ELSE OrderResult(Ok, [i \in DOMAIN ords \ {id} |-> ords[i]])

\* Order.findByIdAndUpdate(id, { status: 'cancelled', updatedAt: new Date() }, { new: true })
CancelOrder(ords, id, now) ==
  IF id \notin DOMAIN ords THEN OrderResult(NotFound, ords)
  ELSE OrderResult(Ok, [ords EXCEPT ![id] =
                          [@ EXCEPT !.status = "cancelled", !.updatedAt = now]])

DeleteOrder(id, ords, now) ==
  IF ~ObjectIdIsValid(id) THEN OrderResult(ValidationFailure, ords)
  ELSE CancelOrder(ords, id, now)

GetOrder(id, ords) ==
  IF ~ObjectIdIsValid(id) THEN OrderResult(ValidationFailure, ords)
  ELSE IF id \notin DOMAIN ords THEN OrderResult(NotFound, ords)
  ELSE OrderResult(Ok, ords)

\* ids an order request can name: malformed, the stored order, an unknown order
OrderIds == {-1, 1, 2}

StatusIn == {None, Some(""), Some("refunded")} \cup {Some(st) : st \in validStatuses}

OrderBodies == [status : StatusIn, notes : {None, Some("note")}]

NoOrderBody == [status |-> None, notes |-> None]

OrderRequest(op, id, body, now, r) ==
  [op |-> op, id |-> id, body |-> body, time |-> now, status |-> r.status]

\* one order, placed at time 0 with status pending
OrderInit ==
  /\ orders = [i \in {1} |-> [status |-> "pending", notes |-> "", updatedAt |-> 0,
                              statusUpdatedAt |-> 0]]
  /\ clock = 1
  /\ changedAt = [i \in {1} |-> 0]
  /\ oPrev = orders
  /\ oLast = [op |-> "init", id |-> 0, body |-> NoOrderBody, time |-> 0, status |-> 0]

\* the time of the last status change of each order, after a request at time now
ChangedAfter(before, after, now) ==
  [i \in DOMAIN changedAt |->
     IF i \in DOMAIN after /\ i \in DOMAIN before /\ after[i].status # before[i].status
     THEN now ELSE changedAt[i]]

(***************************************************************************)
(* Products: POST of the collection route, PUT and DELETE of the item      *)
(* route.  A product name is a sequence of characters, the other text      *)
(* fields are strings; the ObjectId of the n-th created product is         *)
(* OidNames[n].                                                            *)
(***************************************************************************)
OidNames == <<"oid1", "oid2", "oid3", "oid4", "oid5", "oid6">>

\* mongoose.Types.ObjectId.isValid on the id of the item route
ProductOidIsValid(id) == \E i \in 1..Len(OidNames) : OidNames[i] = id

ProductResult(status, error, prods) ==
  [status |-> status, error |-> error, products |-> prods, product |-> None]

\* !productId || !name || !description || !price || !category || !image
MissingRequired(body) ==
  \/ ~Has(body.productId) \/ body.productId[1] = ""
  \/ ~Has(body.name) \/ body.name[1] = <<>>
  \/ ~Has(body.description) \/ body.description[1] = ""
  \/ ~Has(body.price) \/ body.price[1] = 0
  \/ ~Has(body.category) \/ body.category[1] = ""
  \/ ~Has(body.image) \/ body.image[1] = ""

\* Product.findOne({ productId })
ProductIdExists(prods, productId) == \E d \in prods : d.productId = productId

\* the document Product.create builds from productData; image is no schema path
NewProduct(body, oid) ==
  [_id |-> oid, productId |-> body.productId[1], name |-> body.name[1],
   description |-> body.description[1], price |-> body.price[1],
   category |-> body.category[1]]

InsertProduct_NoIndex(prods, doc) == [code |-> 0, products |-> prods \cup {doc}]

\* the insert of Product.create under the unique index on productId
InsertProduct(prods, doc) ==
  IF ProductIdExists(prods, doc.productId)
  THEN [code |-> 11000, products |-> prods]
  ELSE [code |-> 0, products |-> prods \cup {doc}]

\* POST up to the existence check; status 0: the request goes on to create
PostCheck(body, prods) ==
  IF MissingRequired(body)
  THEN ProductResult(ValidationFailure, "Missing required fields", prods)
  ELSE IF ProductIdExists(prods, body.productId[1])
       THEN ProductResult(ValidationFailure, "Product ID already exists.", prods)
  ELSE ProductResult(0, "", prods)

\* POST from Product.create on
PostCreate(body, prods, oid) ==
  LET ins == InsertProduct(prods, NewProduct(body, oid))
  IN IF ins.code = 11000
     THEN ProductResult(ValidationFailure, "Product ID already exists.", prods)
     ELSE ProductResult(Created, "", ins.products)

PostProduct(body, prods, oid) ==
  IF PostCheck(body, prods).status # 0 THEN PostCheck(body, prods)
  ELSE PostCreate(body, prods, oid)

\* the documents the item route selects for id
FindProduct(prods, id) ==
  IF ProductOidIsValid(id) THEN {d \in prods : d._id = id}
  ELSE {d \in prods : d.productId = id}

MergeProduct_Replace(doc, body) ==
  [_id |-> doc._id,
   productId |-> IF Has(body.productId) THEN body.productId[1] ELSE doc.productId,
   name |-> IF Has(body.name) THEN body.name[1] ELSE <<>>,
   description |-> IF Has(body.description) THEN body.description[1] ELSE "",
   price |-> IF Has(body.price) THEN body.price[1] ELSE 0,
   category |-> IF Has(body.category) THEN body.category[1] ELSE ""]

\* the $set of { ...body } on the selected document
MergeProduct(doc, body) ==
  [doc EXCEPT
     !.productId = IF Has(body.productId) THEN body.productId[1] ELSE @,
     !.name = IF Has(body.name) THEN body.name[1] ELSE @,
     !.description = IF Has(body.description) THEN body.description[1] ELSE @,
     !.price = IF Has(body.price) THEN body.price[1] ELSE @,
     !.category = IF Has(body.category) THEN body.category[1] ELSE @]

\* findByIdAndUpdate / findOneAndUpdate under the unique index on productId
UpdateProduct(prods, id, body) ==
  IF FindProduct(prods, id) = {} THEN ProductResult(NotFound, "Product not found", prods)
  ELSE LET doc == CHOOSE d \in FindProduct(prods, id) : TRUE
           merged == MergeProduct(doc, body)
       IN IF ProductIdExists(prods \ {doc}, merged.productId)
          THEN ProductResult(Conflict, "Duplicate product ID, SKU, or slug", prods)
          ELSE ProductResult(Ok, "", (prods \ {doc}) \cup {merged})

PutProduct(id, body, prods) ==
  IF id = "" THEN ProductResult(ValidationFailure, "Product identifier is required", prods)
  ELSE IF ~Has(body.name) \/ body.name[1] = <<>> \/ Blank(body.name[1])
       THEN ProductResult(ValidationFailure, "Product name is required", prods)
  ELSE IF Has(body.price) /\ body.price[1] # 0 /\ body.price[1] < 0
       THEN ProductResult(ValidationFailure, "Price cannot be negative", prods)
  ELSE UpdateProduct(prods, id, body)

\* DELETE of the item route
DeleteProduct(id, prods) ==
  IF id = "" THEN ProductResult(ValidationFailure, "Product identifier is required", prods)
  ELSE IF FindProduct(prods, id) = {} THEN ProductResult(NotFound, "Product not found", prods)
  ELSE ProductResult(Ok, "", prods \ FindProduct(prods, id))

\* GET of the item route; product is the document it answers with
GetProduct(id, prods) ==
  IF id = "" THEN ProductResult(ValidationFailure, "Product identifier is required", prods)
  ELSE IF FindProduct(prods, id) = {} THEN ProductResult(NotFound, "Product not found", prods)
  ELSE [ProductResult(Ok, "", prods) EXCEPT
          !.product = Some(CHOOSE d \in FindProduct(prods, id) : TRUE)]

Clients == {1, 2}

NoProductBody ==
  [productId |-> None, name |-> None, description |-> None, price |-> None,
   category |-> None, image |-> None]

FullProductBody ==
  [productId |-> Some("p1"), name |-> Some(<<"n">>), description |-> Some("d"),
   price |-> Some(5), category |-> Some("c"), image |-> Some("i")]

\* bodies of a create: complete, with either productId and a positive, a
\* negative or a zero price, or without a name, or with a productId that
\* has the shape of an object id
CreateBodies ==
  {[FullProductBody EXCEPT !.productId = Some(pid), !.price = Some(pr)] :
     pid \in {"p1", "p2"}, pr \in {5, -1}}
  \cup {[FullProductBody EXCEPT !.price = Some(0)], [FullProductBody EXCEPT !.name = None],
        [FullProductBody EXCEPT !.productId = Some(OidNames[2])]}

\* bodies of an update: a name alone, with a price (positive, zero or
\* negative) or with a productId, a blank name, and a price without a name
UpdateProductBodies ==
  {[NoProductBody EXCEPT !.name = Some(<<"m">>), !.price = pr] :
     pr \in {None, Some(7), Some(0), Some(-1)}}
  \cup {[NoProductBody EXCEPT !.name = Some(<<"m">>), !.productId = Some("p2")],
        [NoProductBody EXCEPT !.name = Some(<<" ">>)],
        [NoProductBody EXCEPT !.price = Some(7)]}

\* ids of the item route: product ids, and object ids handed out or not yet
ProductRouteIds(n) == {"p1", "p2", "p3"} \cup {OidNames[i] : i \in 1..n}

ProductRequest(op, client, id, body, r) ==
  [op |-> op, client |-> client, id |-> id, body |-> body,
   status |-> r.status, error |-> r.error, product |-> r.product]

\* an empty catalog, no request in flight
ProductInit ==
  /\ products = {}
  /\ nextOid = 1
  /\ pending = [c \in Clients |-> None]
  /\ pPrev = {}
  /\ pLast = [op |-> "init", client |-> 0, id |-> "", body |-> NoProductBody,
              status |-> 0, error |-> "", product |-> None]

(***************************************************************************)
(* Users: GET, PUT and DELETE of the user route.  Names, emails and        *)
(* passwords are sequences of characters, roles are strings, user ids are  *)
(* integers as the address ids are.                                        *)
(***************************************************************************)
UserResult(status, error, us) == [status |-> status, error |-> error, users |-> us]

LowerChar(c) == IF c = "A" THEN "a" ELSE IF c = "D" THEN "d" ELSE c

\* String.prototype.toLowerCase
ToLower(s) == [i \in 1..Len(s) |-> LowerChar(s[i])]

\* /^[^\s@]+@[^\s@]+\.[^\s@]+$/ .test
EmailRegexTest(s) ==
  \E i, j \in 1..Len(s) :
    /\ 1 < i /\ i + 1 < j /\ j < Len(s)
    /\ s[i] = "@" /\ s[j] = "."
    /\ \A k \in 1..Len(s) : k # i => s[k] \notin {Space, "@"}

\* const validRoles
validRoles == {"user", "admin", "moderator"}

\* enum of UserSchema.role
UserSchemaRoles == {"user", "admin", "customer"}

\* truthiness of an optional string that is a sequence of characters
TruthySeq(field) == Has(field) /\ field[1] # <<>>

\* bcrypt.hash
Hash(pw) == <<"$">> \o pw

\* PUT up to the email check; status 0: the request goes on to the update
PutUserCheck(id, body, us) ==
  IF ~ObjectIdIsValid(id) THEN UserResult(ValidationFailure, "Invalid user ID", us)
  ELSE IF ~TruthySeq(body.name) \/ Blank(body.name[1])
       THEN UserResult(ValidationFailure, "Name is required", us)
  ELSE IF ~TruthySeq(body.email) \/ Blank(body.email[1])
       THEN UserResult(ValidationFailure, "Email is required", us)
  ELSE IF ~EmailRegexTest(ToLower(body.email[1]))
       THEN UserResult(ValidationFailure, "Invalid email format", us)
  ELSE IF Truthy(body.role) /\ body.role[1] \notin validRoles
       THEN UserResult(ValidationFailure, "Invalid role", us)
  ELSE IF \E u \in DOMAIN us : u # id /\ us[u].email = ToLower(body.email[1])
       THEN UserResult(Conflict, "Email already in use", us)
  ELSE UserResult(0, "", us)

\* const updateData
UserUpdateData(body) ==
  [name |-> body.name[1], email |-> ToLower(body.email[1]),
   role |-> IF Truthy(body.role) THEN body.role ELSE None,
   password |-> IF TruthySeq(body.password) THEN Some(Hash(body.password[1])) ELSE None]

\* the document after the $set of updateData, under the setters of the schema
MergeUser(user, updateData) ==
  [name |-> Trim(updateData.name), email |-> ToLower(Trim(updateData.email)),
   role |-> IF Has(updateData.role) THEN updateData.role[1] ELSE user.role,
   password |-> IF Has(updateData.password) THEN updateData.password[1] ELSE user.password]

\* findByIdAndUpdate(id, updateData, { new: true, runValidators: true }) under
\* the unique index on email, and the catch of PUT
UpdateUser(us, id, updateData) ==
  IF Has(updateData.role) /\ updateData.role[1] \notin UserSchemaRoles
  THEN UserResult(ValidationFailure, "Validation failed", us)
  ELSE IF id \notin DOMAIN us THEN UserResult(NotFound, "User not found", us)
  ELSE IF \E u \in DOMAIN us : u # id /\ us[u].email = MergeUser(us[id], updateData).email
       THEN UserResult(InternalFailure, "E11000 duplicate key", us)
  ELSE UserResult(Ok, "", [us EXCEPT ![id] = MergeUser(@, updateData)])

\* PUT from the password check on
PutUserWrite(id, body, us) ==
  IF TruthySeq(body.password) /\ Len(body.password[1]) < 6
  THEN UserResult(ValidationFailure, "Password must be at least 6 characters long", us)
  ELSE UpdateUser(us, id, UserUpdateData(body))

PutUser(id, body, us) ==
  IF PutUserCheck(id, body, us).status # 0 THEN PutUserCheck(id, body, us)
  ELSE PutUserWrite(id, body, us)

GetUser(id, us) ==
  IF ~ObjectIdIsValid(id) THEN UserResult(ValidationFailure, "Invalid user ID", us)
  ELSE IF id \notin DOMAIN us THEN UserResult(NotFound, "User not found", us)
  ELSE UserResult(Ok, "", us)

\* DELETE of the user route: User.findByIdAndDelete
DeleteUser(id, us) ==
  IF ~ObjectIdIsValid(id) THEN UserResult(ValidationFailure, "Invalid user ID", us)
  ELSE IF id \notin DOMAIN us THEN UserResult(NotFound, "User not found", us)
  ELSE UserResult(Ok, "", [u \in DOMAIN us \ {id} |-> us[u]])

EmailA == <<"a", "@", "b", ".", "c">>
EmailD == <<"d", "@", "b", ".", "c">>

NoUserBody == [name |-> None, email |-> None, role |-> None, password |-> None]

UserBase(email) == [NoUserBody EXCEPT !.name = Some(<<"n">>), !.email = Some(email)]

RoleIn == {None, Some(""), Some("user"), Some("admin"), Some("customer"), Some("moderator")}

\* bodies of a user update: a name and either email with any role, and
\* bodies with one more field that differs
UserBodies ==
  {[UserBase(e) EXCEPT !.role = r] : e \in {EmailA, EmailD}, r \in RoleIn}
  \cup {[UserBase(EmailA) EXCEPT !.email = e] :
          e \in {None, Some(<<"A", "@", "b", ".", "c">>), Some(<<"a", "@", "b">>), Some(<<" ">>)}}
  \cup {[UserBase(EmailA) EXCEPT !.name = n] : n \in {None, Some(<<" ", "m", " ">>)}}
  \cup {[UserBase(EmailA) EXCEPT !.password = p] :
          p \in {Some(<<"p">>), Some(<<"p", "a", "s", "s", "w", "d">>)}}

UserIds == {-1, 1, 2, 3}

UserRequest(op, client, id, body, r) ==
  [op |-> op, client |-> client, id |-> id, body |-> body,
   status |-> r.status, error |-> r.error]

\* two registered users with the default role
InitUsers ==
  (1 :> [name |-> <<"n">>, email |-> EmailA, role |-> "customer", password |-> Hash(<<"x">>)])
  @@ (2 :> [name |-> <<"n">>, email |-> EmailD, role |-> "customer", password |-> Hash(<<"x">>)])

UserInit ==
  /\ users = InitUsers
  /\ uPending = [c \in Clients |-> None]
  /\ uPrev = InitUsers
  /\ uLast = [op |-> "init", client |-> 0, id |-> 0, body |-> NoUserBody,
              status |-> 0, error |-> ""]

(***************************************************************************)
(* Address requests of two clients, interleaved at the await of save():    *)
(* a request reads the user document and changes the list in memory, and   *)
(* later writes the document.                                              *)
(***************************************************************************)
Persist_Versioned(stored, base, doc) ==
  IF stored = base THEN [ok |-> TRUE, addresses |-> doc]
  ELSE [ok |-> FALSE, addresses |-> stored]

Persist_Push(stored, base, doc) ==
  [ok |-> TRUE,
   addresses |-> stored \o SelectSeq(doc, LAMBDA a : FindIndex(base, a._id) = 0)]

\* the write of user.save(): the stored list becomes the list in memory
Persist(stored, base, doc) == [ok |-> TRUE, addresses |-> doc]

\* bodies of the interleaved adds: complete, default or not
RaceAddBodies == {BaseBody, [BaseBody EXCEPT !.isDefault = Some(TRUE)]}

\* bodies of the interleaved updates: make the target the default, or not
RaceUpdateAddrBodies ==
  {[EmptyBody EXCEPT !.isDefault = d] : d \in {Some(TRUE), Some(FALSE)}}

NoStep ==
  [kind |-> "init", op |-> "init", client |-> 0, status |-> 0,
   base |-> <<>>, doc |-> <<>>, before |-> <<>>]

\* a request that answers without a save, or one that waits for its save
Reply(op, c, r, base) ==
  [kind |-> "reply", op |-> op, client |-> c, status |-> r.status,
   base |-> base, doc |-> base, before |-> base]

Waiting(op, r, base) == Some([op |-> op, status |-> r.status, base |-> base, doc |-> r.addresses])

AddrRaceInit ==
  /\ inflight = [c \in Clients |-> None]
  /\ rLast = NoStep

(***************************************************************************)
(* The add-product form: image list, primary image and upload flag.  The   *)
(* url of an uploaded file is its number; 0 is the empty string.           *)
(***************************************************************************)
NoImage == 0

\* secure_url of an uploaded file
Url(file) == file

\* prev.images.filter((_, i) => i !== index), index counted from 0
FilterOut(imgs, index) ==
  SubSeq(imgs, 1, index) \o SubSeq(imgs, index + 2, Len(imgs))

\* the state after the setFormData of handleImageUpload
AfterUpload(imgs, img, successfulUploads) ==
  [images |-> imgs \o successfulUploads,
   image |-> IF img # NoImage THEN img
             ELSE IF Len(successfulUploads) > 0 THEN successfulUploads[1] ELSE NoImage]

\* the state after removeImage(index)
AfterRemove(imgs, img, index) ==
  LET newImages == FilterOut(imgs, index)
  IN [images |-> newImages,
      image |-> IF index = 0 /\ Len(newImages) > 0 THEN newImages[1] ELSE img]

\* the state after setPrimaryImage(index)
AfterSetPrimary(imgs, img, index) ==
  IF index + 1 > Len(imgs) THEN [images |-> imgs, image |-> img]
  ELSE [images |-> <<imgs[index + 1]>> \o FilterOut(imgs, index), image |-> imgs[index + 1]]

\* the empty form
FormInit ==
  /\ images = <<>>
  /\ image = NoImage
  /\ uploadingImages = FALSE
  /\ uploadBatches = <<>>
  /\ nextFile = 1

(***************************************************************************)
(* The product management page: pagination over the fetched products.      *)
(***************************************************************************)
productsPerPage == 6

\* Math.ceil(products.length / productsPerPage)
TotalPages(n) == (n + productsPerPage - 1) \div productsPerPage

Max(a, b) == IF a > b THEN a ELSE b
Min(a, b) == IF a < b THEN a ELSE b

\* the table is rendered: not loading and no error
TableShown == ~loading /\ pageError = ""

\* rows of currentProducts
RowsShown ==
  Max(0, Min(pageProducts, currentPage * productsPerPage)
         - (currentPage * productsPerPage - productsPerPage))

RemoveAt(seq, i) == SubSeq(seq, 1, i - 1) \o SubSeq(seq, i + 1, Len(seq))

\* the page as mounted: the first fetch is on its way, and the server holds
\* one full page and as many products more as deletes can overlap
PageInit ==
  /\ catalog = productsPerPage + MaxInFlight
  /\ pageProducts = 0
  /\ currentPage = 1
  /\ loading = TRUE
  /\ pageError = ""
  /\ deleting = FALSE
  /\ deletes = 0
  /\ fetches = <<-1>>

ExtInit == UserInit /\ AddrRaceInit /\ FormInit /\ PageInit

\* the user document right after registration: no address
AddrInit ==
  /\ addresses = <<>>
  /\ nextId = 1
  /\ prev = <<>>
  /\ last = [op |-> "init", session |-> None, addressId |-> 0, body |-> EmptyBody,
             status |-> 0, reads |-> 0, writes |-> 0]

\* no document is being saved outside the handlers
HookIdle ==
  /\ hookOrig = <<>>
  /\ hookDoc = <<>>
  /\ hookIn = <<>>
  /\ hookPhase = "loaded"

Init == AddrInit /\ HookIdle /\ OrderInit /\ ProductInit /\ ExtInit

listAddresses ==
  \E session \in Sessions :
    LET r == GetAddresses(session, addresses) IN
    /\ addresses' = r.addresses
    /\ prev' = addresses
    /\ last' = Request("list", session, 0, EmptyBody, r)
    /\ UNCHANGED nextId
    /\ UNCHANGED nonAddrVars

addAddress ==
  /\ nextId <= MaxAdds
  /\ \E session \in Sessions : \E body \in BodiesOf(session, AddBodies) :
       LET r == PostAddresses(session, body, addresses, nextId) IN
       /\ addresses' = r.addresses
       /\ nextId' = IF r.status = Created THEN nextId + 1 ELSE nextId
       /\ prev' = addresses
       /\ last' = Request("add", session, 0, body, r)
       /\ UNCHANGED nonAddrVars

updateAddress ==
  \E session \in Sessions, addressId \in AddressIds(nextId) :
  \E body \in BodiesOf(session, UpdateBodies) :
    LET r == PutAddresses(session, addressId, body, addresses) IN
    /\ addresses' = r.addresses
    /\ prev' = addresses
    /\ last' = Request("update", session, addressId, body, r)
    /\ UNCHANGED nextId
    /\ UNCHANGED nonAddrVars

removeAddress ==
  \E session \in Sessions, addressId \in AddressIds(nextId) :
    LET r == DeleteAddresses(session, addressId, addresses) IN
    /\ addresses' = r.addresses
    /\ prev' = addresses
    /\ last' = Request("remove", session, addressId, EmptyBody, r)
    /\ UNCHANGED nextId
    /\ UNCHANGED nonAddrVars

Next == listAddresses \/ addAddress \/ updateAddress \/ removeAddress

Spec == Init /\ [][Next]_vars

(***************************************************************************)
(* The pre-save pass on its own: a document is loaded with any flags, any  *)
(* code path sets the flags of its addresses, and the document is saved.   *)
(***************************************************************************)
\* address lists of n subdocuments with the given flags
FlagLists(n) ==
  {[i \in 1..n |-> [_id |-> i, isDefault |-> f[i]]] : f \in [1..n -> BOOLEAN]}

HookInit ==
  /\ \E n \in 1..MaxHookLen : hookOrig \in FlagLists(n)
  /\ hookDoc = hookOrig
  /\ hookIn = <<>>
  /\ hookPhase = "loaded"

\* a code path assigns isDefault flags on the loaded document
hookModify ==
  /\ hookPhase = "loaded"
  /\ hookDoc' \in FlagLists(Len(hookOrig))
  /\ hookPhase' = "modified"
  /\ UNCHANGED <<hookOrig, hookIn, addrVars, orderVars, productVars, extVars>>

\* document.save()
hookSave ==
  /\ hookPhase = "modified"
  /\ hookDoc' = Save(hookOrig, hookDoc)
  /\ hookIn' = hookDoc
  /\ hookPhase' = "saved"
  /\ UNCHANGED <<hookOrig, addrVars, orderVars, productVars, extVars>>

NextHook == hookModify \/ hookSave

InitHook == AddrInit /\ HookInit /\ OrderInit /\ ProductInit /\ ExtInit

SpecHook == InitHook /\ [][NextHook]_vars

(***************************************************************************)
(* Order requests, one at a time.                                          *)
(***************************************************************************)
getOrder ==
  /\ clock <= MaxTime
  /\ \E id \in OrderIds :
       LET r == GetOrder(id, orders) IN
       /\ orders' = r.orders
       /\ oPrev' = orders
       /\ oLast' = OrderRequest("get", id, NoOrderBody, clock, r)
       /\ changedAt' = ChangedAfter(orders, r.orders, clock)
       /\ clock' = clock + 1
       /\ UNCHANGED <<addrVars, hookVars, productVars, extVars>>

updateOrder ==
  /\ clock <= MaxTime
  /\ \E id \in OrderIds, body \in OrderBodies :
       LET r == PutOrder(id, body, orders, clock) IN
       /\ orders' = r.orders
       /\ oPrev' = orders
       /\ oLast' = OrderRequest("update", id, body, clock, r)
       /\ changedAt' = ChangedAfter(orders, r.orders, clock)
       /\ clock' = clock + 1
       /\ UNCHANGED <<addrVars, hookVars, productVars, extVars>>

cancelOrder ==
  /\ clock <= MaxTime
  /\ \E id \in OrderIds :
       LET r == DeleteOrder(id, orders, clock) IN
       /\ orders' = r.orders
       /\ oPrev' = orders
       /\ oLast' = OrderRequest("cancel", id, NoOrderBody, clock, r)
       /\ changedAt' = ChangedAfter(orders, r.orders, clock)
       /\ clock' = clock + 1
       /\ UNCHANGED <<addrVars, hookVars, productVars, extVars>>

NextOrders == getOrder \/ updateOrder \/ cancelOrder

SpecOrders == Init /\ [][NextOrders]_vars

(***************************************************************************)
(* Product requests, one at a time.                                        *)
(***************************************************************************)
createProduct ==
  /\ nextOid <= MaxCreates
  /\ \E body \in CreateBodies :
       LET r == PostProduct(body, products, OidNames[nextOid]) IN
       /\ products' = r.products
       /\ nextOid' = IF r.status = Created THEN nextOid + 1 ELSE nextOid
       /\ pPrev' = products
       /\ pLast' = ProductRequest("create", 1, "", body, r)
       /\ UNCHANGED <<pending, addrVars, hookVars, orderVars, extVars>>

getProduct ==
  \E id \in ProductRouteIds(nextOid) :
    LET r == GetProduct(id, products) IN
    /\ pPrev' = products
    /\ pLast' = ProductRequest("get", 1, id, NoProductBody, r)
    /\ UNCHANGED <<products, nextOid, pending, addrVars, hookVars, orderVars, extVars>>

updateProduct ==
  \E id \in ProductRouteIds(nextOid), body \in UpdateProductBodies :
    LET r == PutProduct(id, body, products) IN
    /\ products' = r.products
    /\ pPrev' = products
    /\ pLast' = ProductRequest("update", 1, id, body, r)
    /\ UNCHANGED <<nextOid, pending, addrVars, hookVars, orderVars, extVars>>

deleteProduct ==
  \E id \in ProductRouteIds(nextOid) :
    LET r == DeleteProduct(id, products) IN
    /\ products' = r.products
    /\ pPrev' = products
    /\ pLast' = ProductRequest("delete", 1, id, NoProductBody, r)
    /\ UNCHANGED <<nextOid, pending, addrVars, hookVars, orderVars, extVars>>

NextProducts == createProduct \/ getProduct \/ updateProduct \/ deleteProduct

SpecProducts == Init /\ [][NextProducts]_vars

(***************************************************************************)
(* Address requests of two clients of one user, interleaved.               *)
(***************************************************************************)
\* a handler up to its await of save(): r is what it answers or will write
beginStep(op, c, r) ==
  /\ ~Has(inflight[c])
  /\ inflight' = IF r.writes = 1 THEN [inflight EXCEPT ![c] = Waiting(op, r, addresses)]
                 ELSE inflight
  /\ rLast' = IF r.writes = 1 THEN [Reply(op, c, r, addresses) EXCEPT !.kind = "begin"]
              ELSE Reply(op, c, r, addresses)
  /\ UNCHANGED <<addresses, notAddrRaceVars>>

beginAdd ==
  /\ nextId <= MaxRaceAdds
  /\ \E c \in Clients, body \in RaceAddBodies :
       LET r == PostAddresses(Some(UserEmail), body, addresses, nextId) IN
       /\ beginStep("add", c, r)
       /\ nextId' = IF r.writes = 1 THEN nextId + 1 ELSE nextId

beginUpdate ==
  \E c \in Clients, addressId \in 1..nextId, body \in RaceUpdateAddrBodies :
    /\ beginStep("update", c, PutAddresses(Some(UserEmail), addressId, body, addresses))
    /\ UNCHANGED nextId

beginRemove ==
  \E c \in Clients, addressId \in 1..nextId :
    /\ beginStep("remove", c, DeleteAddresses(Some(UserEmail), addressId, addresses))
    /\ UNCHANGED nextId

\* the save() of a waiting request and its response
commit ==
  \E c \in Clients :
    /\ Has(inflight[c])
    /\ LET w == inflight[c][1]
           p == Persist(addresses, w.base, w.doc) IN
       /\ addresses' = p.addresses
       /\ rLast' = [kind |-> "commit", op |-> w.op, client |-> c,
                    status |-> IF p.ok THEN w.status ELSE InternalFailure,
                    base |-> w.base, doc |-> w.doc, before |-> addresses]
       /\ inflight' = [inflight EXCEPT ![c] = None]
       /\ UNCHANGED <<nextId, notAddrRaceVars>>

NextAddrRace == beginAdd \/ beginUpdate \/ beginRemove \/ commit

SpecAddrRace == Init /\ [][NextAddrRace]_vars

(***************************************************************************)
(* The add-product form.                                                   *)
(***************************************************************************)
\* handleImageUpload up to await Promise.all
startUpload ==
  \E n \in 1..2 :
    /\ nextFile + n - 1 <= MaxFiles
    /\ uploadingImages' = TRUE
    /\ uploadBatches' = Append(uploadBatches, [i \in 1..n |-> nextFile + i - 1])
    /\ nextFile' = nextFile + n
    /\ UNCHANGED <<images, image, notFormVars>>

\* handleImageUpload from the answer of Promise.all on
finishUpload ==
  \E b \in 1..Len(uploadBatches) : \E ok \in SUBSET {uploadBatches[b][i] : i \in 1..Len(uploadBatches[b])} :
    LET successfulUploads ==
          SelectSeq([i \in 1..Len(uploadBatches[b]) |-> Url(uploadBatches[b][i])],
                    LAMBDA u : u \in {Url(f) : f \in ok})
        after == AfterUpload(images, image, successfulUploads) IN
    /\ images' = after.images
    /\ image' = after.image
    /\ uploadingImages' = FALSE
    /\ uploadBatches' = RemoveAt(uploadBatches, b)
    /\ UNCHANGED <<nextFile, notFormVars>>

removeImage ==
  \E index \in 0..(Len(images) - 1) :
    LET after == AfterRemove(images, image, index) IN
    /\ images' = after.images
    /\ image' = after.image
    /\ UNCHANGED <<uploadingImages, uploadBatches, nextFile, notFormVars>>

setPrimaryImage ==
  \E index \in 0..(Len(images) - 1) :
    LET after == AfterSetPrimary(images, image, index) IN
    /\ images' = after.images
    /\ image' = after.image
    /\ UNCHANGED <<uploadingImages, uploadBatches, nextFile, notFormVars>>

NextForm == startUpload \/ finishUpload \/ removeImage \/ setPrimaryImage

SpecForm == Init /\ [][NextForm]_vars

(***************************************************************************)
(* The product management page.                                            *)
(***************************************************************************)
\* GET /api/products reads the catalog for a fetch in flight
serveFetch ==
  \E i \in 1..Len(fetches) :
    /\ fetches[i] = -1
    /\ fetches' = [fetches EXCEPT ![i] = catalog]
    /\ UNCHANGED <<catalog, pageProducts, currentPage, loading, pageError, deleting,
                   deletes, notPageVars>>

\* fetchProducts from the answer on: setProducts, setError(""), setLoading(false)
deliverFetch ==
  \E i \in 1..Len(fetches) :
    /\ fetches[i] >= 0
    /\ pageProducts' = fetches[i]
    /\ pageError' = ""
    /\ loading' = FALSE
    /\ fetches' = RemoveAt(fetches, i)
    /\ UNCHANGED <<catalog, currentPage, deleting, deletes, notPageVars>>

\* fetchProducts when the fetch throws
failFetch ==
  \E i \in 1..Len(fetches) :
    /\ pageError' = "Failed to load products"
    /\ loading' = FALSE
    /\ fetches' = RemoveAt(fetches, i)
    /\ UNCHANGED <<catalog, pageProducts, currentPage, deleting, deletes, notPageVars>>

\* a page-number button
clickPage ==
  /\ TableShown /\ TotalPages(pageProducts) > 1
  /\ \E n \in 1..TotalPages(pageProducts) : currentPage' = n
  /\ UNCHANGED <<catalog, pageProducts, loading, pageError, deleting, deletes, fetches,
                 notPageVars>>

clickPrevious ==
  /\ TableShown /\ TotalPages(pageProducts) > 1 /\ currentPage # 1
  /\ currentPage' = Max(currentPage - 1, 1)
  /\ UNCHANGED <<catalog, pageProducts, loading, pageError, deleting, deletes, fetches,
                 notPageVars>>

clickNext ==
  /\ TableShown /\ TotalPages(pageProducts) > 1 /\ currentPage # TotalPages(pageProducts)
  /\ currentPage' = Min(currentPage + 1, TotalPages(pageProducts))
  /\ UNCHANGED <<catalog, pageProducts, loading, pageError, deleting, deletes, fetches,
                 notPageVars>>

\* handleDelete up to await fetch: the button of a row whose delete is not
\* the one named by the deleting state
clickDelete ==
  /\ TableShown
  /\ RowsShown >= (IF deleting THEN 2 ELSE 1)
  /\ deletes + Len(fetches) < MaxInFlight
  /\ deletes' = deletes + 1
  /\ deleting' = TRUE
  /\ UNCHANGED <<catalog, pageProducts, currentPage, loading, pageError, fetches, notPageVars>>

\* handleDelete after res.ok: fetchProducts() starts, setCurrentPage(1)
deleteSucceeds ==
  /\ deletes > 0 /\ catalog > 0
  /\ catalog' = catalog - 1
  /\ deletes' = deletes - 1
  /\ loading' = TRUE
  /\ fetches' = Append(fetches, -1)
  /\ currentPage' = 1
  /\ deleting' = FALSE
  /\ UNCHANGED <<pageProducts, pageError, notPageVars>>

\* handleDelete when the response is not ok: alert
deleteFails ==
  /\ deletes > 0
  /\ deletes' = deletes - 1
  /\ deleting' = FALSE
  /\ UNCHANGED <<catalog, pageProducts, currentPage, loading, pageError, fetches, notPageVars>>

NextPage ==
  \/ serveFetch \/ deliverFetch \/ failFetch
  \/ clickPage \/ clickPrevious \/ clickNext
  \/ clickDelete \/ deleteSucceeds \/ deleteFails

SpecPage == Init /\ [][NextPage]_vars

(***************************************************************************)
(* User requests, one at a time.                                           *)
(***************************************************************************)
getUser ==
  \E id \in UserIds :
    LET r == GetUser(id, users) IN
    /\ uPrev' = users
    /\ uLast' = UserRequest("get", 1, id, NoUserBody, r)
    /\ UNCHANGED <<users, uPending, notUserVars>>

updateUser ==
  \E id \in UserIds, body \in UserBodies :
    LET r == PutUser(id, body, users) IN
    /\ users' = r.users
    /\ uPrev' = users
    /\ uLast' = UserRequest("update", 1, id, body, r)
    /\ UNCHANGED <<uPending, notUserVars>>

deleteUser ==
  \E id \in UserIds :
    LET r == DeleteUser(id, users) IN
    /\ users' = r.users
    /\ uPrev' = users
    /\ uLast' = UserRequest("delete", 1, id, NoUserBody, r)
    /\ UNCHANGED <<uPending, notUserVars>>

NextUsers == getUser \/ updateUser \/ deleteUser

SpecUsers == Init /\ [][NextUsers]_vars

(***************************************************************************)
(* User updates of two clients, interleaved at the awaits of PUT: the      *)
(* email check and the update are separate steps.                          *)
(***************************************************************************)
EmailE == <<"e", "@", "b", ".", "c">>

\* bodies of the interleaved updates: a name and one of three emails
RaceUserBodies == {UserBase(e) : e \in {EmailA, EmailD, EmailE}}

RaceUserIds == {1, 2}

\* PUT until User.findOne has answered
userCheck ==
  \E c \in Clients, id \in RaceUserIds, body \in RaceUserBodies :
    LET r == PutUserCheck(id, body, users) IN
    /\ ~Has(uPending[c])
    /\ uPending' = IF r.status = 0
                   THEN [uPending EXCEPT ![c] = Some([id |-> id, body |-> body])]
                   ELSE uPending
    /\ uPrev' = users
    /\ uLast' = UserRequest("check", c, id, body, r)
    /\ UNCHANGED <<users, notUserVars>>

\* PUT from the password check to the response
userWrite ==
  \E c \in Clients :
    /\ Has(uPending[c])
    /\ LET id == uPending[c][1].id
           body == uPending[c][1].body
           r == PutUserWrite(id, body, users) IN
       /\ users' = r.users
       /\ uPending' = [uPending EXCEPT ![c] = None]
       /\ uPrev' = users
       /\ uLast' = UserRequest("write", c, id, body, r)
       /\ UNCHANGED notUserVars

NextUserRace == userCheck \/ userWrite

SpecUserRace == Init /\ [][NextUserRace]_vars

(***************************************************************************)
(* Product requests of two clients, interleaved at the awaits of POST:     *)
(* the existence check and the create are separate steps.                  *)
(***************************************************************************)
\* bodies of the interleaved creates: complete, with either productId
RaceCreateBodies ==
  {[FullProductBody EXCEPT !.productId = Some(pid)] : pid \in {"p1", "p2"}}

\* bodies of the interleaved updates: a name, with or without a productId
RaceUpdateBodies ==
  {[NoProductBody EXCEPT !.name = Some(<<"m">>), !.productId = pid] :
     pid \in {None, Some("p1"), Some("p2")}}

RaceRouteIds == {"p1", "p2"}

\* POST until Product.findOne has answered
createCheck ==
  \E c \in Clients, body \in RaceCreateBodies :
    LET r == PostCheck(body, products) IN
    /\ ~Has(pending[c])
    /\ pending' = IF r.status = 0 THEN [pending EXCEPT ![c] = Some(body)] ELSE pending
    /\ pPrev' = products
    /\ pLast' = ProductRequest("check", c, "", body, r)
    /\ UNCHANGED <<products, nextOid, addrVars, hookVars, orderVars, extVars>>

\* POST from Product.create to the response
createInsert ==
  \E c \in Clients :
    /\ Has(pending[c])
    /\ nextOid <= MaxCreates
    /\ LET body == pending[c][1]
           r == PostCreate(body, products, OidNames[nextOid]) IN
       /\ products' = r.products
       /\ nextOid' = IF r.status = Created THEN nextOid + 1 ELSE nextOid
       /\ pending' = [pending EXCEPT ![c] = None]
       /\ pPrev' = products
       /\ pLast' = ProductRequest("create", c, "", body, r)
       /\ UNCHANGED <<addrVars, hookVars, orderVars, extVars>>

raceUpdate ==
  \E c \in Clients, id \in RaceRouteIds, body \in RaceUpdateBodies :
    LET r == PutProduct(id, body, products) IN
    /\ products' = r.products
    /\ pPrev' = products
    /\ pLast' = ProductRequest("update", c, id, body, r)
    /\ UNCHANGED <<nextOid, pending, addrVars, hookVars, orderVars, extVars>>

raceDelete ==
  \E c \in Clients, id \in RaceRouteIds :
    LET r == DeleteProduct(id, products) IN
    /\ products' = r.products
    /\ pPrev' = products
    /\ pLast' = ProductRequest("delete", c, id, NoProductBody, r)
    /\ UNCHANGED <<nextOid, pending, addrVars, hookVars, orderVars, extVars>>

NextRace == createCheck \/ createInsert \/ raceUpdate \/ raceDelete

SpecRace == Init /\ [][NextRace]_vars

(***************************************************************************)
(* Properties of the address book.                                         *)
(***************************************************************************)
Authenticated == last.session = Some(UserEmail)

\* index in prev of the address the last request named, 0 when it named none
TargetIdx ==
  IF \E i \in 1..Len(prev) : prev[i]._id = last.addressId
  THEN CHOOSE i \in 1..Len(prev) : prev[i]._id = last.addressId
  ELSE 0

\* C1: after every sequence of successful or failed add / update / remove
\* requests the persisted list holds at most one address with isDefault.
C1_AtMostOneDefault ==
  Cardinality({i \in 1..Len(addresses) : addresses[i].isDefault}) <= 1

C1_Witness ==
  /\ last.op = "update" /\ last.status = Ok
  /\ last.body.isDefault = Some(TRUE)
  /\ Len(prev) >= 2
  /\ \E j \in 1..Len(prev) : j # TargetIdx /\ prev[j].isDefault

\* C2: whenever the persisted list is non-empty exactly one address has
\* isDefault, also after an update that sets isDefault = false on the default.
C2_ExactlyOneDefault ==
  Len(addresses) > 0 =>
    Cardinality({i \in 1..Len(addresses) : addresses[i].isDefault}) = 1

\* C3: a successful addAddress on an empty list yields a one-element list
\* whose address is default, whatever isDefault the request carried.
C3_FirstAddressForcedDefault ==
  (last.op = "add" /\ last.status = Created /\ Len(prev) = 0) =>
    (Len(addresses) = 1 /\ addresses[1].isDefault)

C3_Witness ==
  /\ last.op = "add" /\ last.status = Created /\ Len(prev) = 0
  /\ last.body.isDefault = Some(FALSE)

\* C4: a successful addAddress on a non-empty list with isDefault = true
\* clears every existing flag and appends the new address as the only
\* default; with isDefault false or omitted it appends a non-default address
\* and leaves every existing flag as it was.
C4_AddOnNonEmpty ==
  (last.op = "add" /\ last.status = Created /\ Len(prev) > 0) =>
    /\ Len(addresses) = Len(prev) + 1
    /\ IF last.body.isDefault = Some(TRUE)
       THEN /\ addresses[Len(addresses)].isDefault
            /\ \A i \in 1..Len(prev) : ~addresses[i].isDefault
       ELSE /\ ~addresses[Len(addresses)].isDefault
            /\ \A i \in 1..Len(prev) : addresses[i].isDefault = prev[i].isDefault

C4_Witness ==
  /\ last.op = "add" /\ last.status = Created /\ Len(prev) = 2
  /\ last.body.isDefault = Some(TRUE)
  /\ prev[1].isDefault

\* C5: removing the default address promotes the first remaining address
\* (index 0 after removal) to the only default when others remain, and
\* leaves the empty list when it was the only one.
C5_RemoveDefaultPromotesFirst ==
  (last.op = "remove" /\ last.status = Ok /\ TargetIdx > 0 /\ prev[TargetIdx].isDefault) =>
    IF Len(prev) > 1
    THEN /\ Len(addresses) = Len(prev) - 1
         /\ addresses[1].isDefault
         /\ \A i \in 2..Len(addresses) : ~addresses[i].isDefault
    ELSE addresses = <<>>

C5_Witness ==
  /\ last.op = "remove" /\ last.status = Ok /\ Len(prev) = 3
  /\ TargetIdx = 2 /\ prev[2].isDefault
  /\ addresses[1].isDefault

\* C6: updateAddress(target, {isDefault: true}) while another address is
\* default makes the target the only default and changes the flag of no
\* address but the target and the one that was default.
C6_UpdateToDefault ==
  (/\ last.op = "update" /\ last.status = Ok /\ last.body.isDefault = Some(TRUE)
   /\ \E j \in 1..Len(prev) : j # TargetIdx /\ prev[j].isDefault) =>
    /\ Len(addresses) = Len(prev)
    /\ \A i \in 1..Len(addresses) : addresses[i].isDefault = (i = TargetIdx)
    /\ Cardinality({i \in 1..Len(prev) : prev[i].isDefault /\ ~addresses[i].isDefault}) = 1
    /\ \A i \in 1..Len(prev) :
         (i # TargetIdx /\ ~prev[i].isDefault) => ~addresses[i].isDefault

C6_Witness ==
  /\ last.op = "update" /\ last.status = Ok /\ last.body.isDefault = Some(TRUE)
  /\ Len(prev) = 3 /\ TargetIdx = 3 /\ prev[1].isDefault
  /\ addresses[3].isDefault

\* C7 as stated: an authenticated updateAddress / removeAddress whose
\* addressId matches no address fails with NotFound, persists nothing and
\* leaves the list unchanged.
C7_UnknownIdNotFound ==
  (last.op \in {"update", "remove"} /\ Authenticated /\ TargetIdx = 0) =>
    (last.status = NotFound /\ last.writes = 0 /\ addresses = prev)

\* C7 amended: an authenticated updateAddress / removeAddress whose addressId
\* matches no address persists nothing and leaves the list unchanged; it
\* fails with NotFound when the id is a well-formed object id, and with
\* ValidationFailure when the id is missing or malformed.
C7_UnknownIdRejected ==
  (last.op \in {"update", "remove"} /\ Authenticated /\ TargetIdx = 0) =>
    /\ last.status = IF last.addressId > 0 THEN NotFound ELSE ValidationFailure
    /\ last.writes = 0
    /\ addresses = prev

C7_Witness ==
  /\ last.op = "update" /\ Authenticated /\ TargetIdx = 0
  /\ last.addressId = -1 /\ last.status = ValidationFailure
  /\ last.body.isDefault = Some(TRUE)
  /\ Len(prev) = 2

\* C8 as stated: an addAddress whose zipCode contains any non-digit
\* character fails with ValidationFailure and leaves the list unchanged.
C8_NonDigitZipRejected ==
  (/\ last.op = "add" /\ Authenticated /\ Has(last.body.zipCode)
   /\ \E i \in 1..Len(last.body.zipCode[1]) : last.body.zipCode[1][i] \notin Digits) =>
    (last.status = ValidationFailure /\ addresses = prev)

\* C8 amended: an addAddress by a caller with a session whose zipCode, with
\* its leading and trailing whitespace removed, contains any non-digit
\* character fails with ValidationFailure and leaves the list unchanged,
\* whatever the requested isDefault.
C8_TrimmedNonDigitZipRejected ==
  (/\ last.op = "add" /\ last.session # None /\ Has(last.body.zipCode)
   /\ LET z == Trim(last.body.zipCode[1]) IN \E i \in 1..Len(z) : z[i] \notin Digits) =>
    (last.status = ValidationFailure /\ last.writes = 0 /\ addresses = prev)

C8_Witness ==
  /\ last.op = "add" /\ Authenticated
  /\ last.body.zipCode = Some(<<"1", "A">>)
  /\ last.body.isDefault = Some(TRUE)
  /\ last.status = ValidationFailure
  /\ Len(prev) = 2 /\ prev[1].isDefault

\* C9: an authenticated addAddress whose body omits street, city, state or
\* zipCode fails with ValidationFailure and appends nothing.
C9_MissingFieldIsValidationFailure ==
  (/\ last.op = "add" /\ Authenticated
   /\ (\/ last.body.street = None \/ last.body.city = None
       \/ last.body.state = None \/ last.body.zipCode = None)) =>
    (last.status = ValidationFailure /\ addresses = prev)

\* C10: a request of any of the four operations without a session fails
\* with Unauthorized, reads and writes nothing in the user store and leaves
\* the persisted list unchanged.
C10_UnauthorizedBeforeStore ==
  (last.op \in {"list", "add", "update", "remove"} /\ last.session = None) =>
    /\ last.status = Unauthorized
    /\ last.reads = 0 /\ last.writes = 0
    /\ addresses = prev

C10_Witness ==
  /\ last.op = "remove" /\ last.session = None
  /\ last.status = Unauthorized
  /\ TargetIdx > 0

\* C11: an updateAddress whose fields do not include isDefault leaves the
\* isDefault flag of the target and of every sibling address as it was.
C11_UpdateWithoutDefaultKeepsFlags ==
  (last.op = "update" /\ last.body.isDefault = None) =>
    /\ Len(addresses) = Len(prev)
    /\ \A i \in 1..Len(prev) : addresses[i].isDefault = prev[i].isDefault

C11_Witness ==
  /\ last.op = "update" /\ last.status = Ok /\ last.body.isDefault = None
  /\ last.body.street = Some(<<" ", "t", " ">>)
  /\ Len(prev) = 2 /\ TargetIdx = 1 /\ prev[1].isDefault
  /\ addresses[1].street = <<"t">> /\ prev[1].street = <<"s">>

C13_InvalidUpdateChangesNothing ==
  (/\ last.op = "update" /\ Authenticated /\ TargetIdx > 0
   /\ LET b == last.body
          blank(f) == Has(f) /\ \A i \in 1..Len(f[1]) : f[1][i] = Space
      IN \/ blank(b.street) \/ blank(b.city) \/ blank(b.state)
         \/ blank(b.zipCode) \/ blank(b.country)
         \/ Has(b.zipCode) /\ \E i \in 1..Len(Trim(b.zipCode[1])) :
                                 Trim(b.zipCode[1])[i] \notin Digits
         \/ Has(b.label) /\ b.label[1] \notin {"home", "work", "other"}) =>
    (last.status = ValidationFailure /\ last.writes = 0 /\ addresses = prev)

C13_Witness ==
  /\ last.op = "update" /\ Authenticated /\ TargetIdx = 2
  /\ last.body.street = Some(<<" ", "t", " ">>)
  /\ last.body.city = Some(<<" ">>)
  /\ last.body.isDefault = Some(TRUE)
  /\ last.status = ValidationFailure
  /\ prev[1].isDefault /\ prev[2].street = <<"s">>

(***************************************************************************)
(* Properties of the orders.                                               *)
(***************************************************************************)
SixStatuses == {"pending", "confirmed", "processing", "shipped", "delivered", "cancelled"}

\* C14: an update of an existing order with any of the six statuses
\* succeeds and sets the status to the requested value, whatever the current
\* status: all 36 (current, requested) pairs are allowed.
C14_AnyTransitionAllowed ==
  /\ (/\ oLast.op = "update" /\ oLast.id \in DOMAIN oPrev
      /\ Has(oLast.body.status) /\ oLast.body.status[1] \in SixStatuses) =>
       /\ oLast.status = Ok
       /\ oLast.id \in DOMAIN orders
       /\ orders[oLast.id].status = oLast.body.status[1]
  /\ \A id \in DOMAIN orders : \A st \in SixStatuses :
       LET r == PutOrder(id, [status |-> Some(st), notes |-> None], orders, clock)
       IN r.status = Ok /\ r.orders[id].status = st

C14_Witness ==
  /\ oLast.op = "update" /\ oLast.status = Ok
  /\ oLast.id \in DOMAIN oPrev
  /\ oPrev[oLast.id].status = "delivered"
  /\ orders[oLast.id].status = "pending"

\* C15: an order's status is always one of the six statuses; an update whose
\* status is any other value, the empty string included, is rejected and
\* leaves the orders unchanged.
C15_StatusInEnumeration ==
  /\ \A id \in DOMAIN orders : orders[id].status \in SixStatuses
  /\ (/\ oLast.op = "update"
      /\ Has(oLast.body.status) /\ oLast.body.status[1] \notin SixStatuses) =>
       (oLast.status = ValidationFailure /\ orders = oPrev)

C15_Witness ==
  /\ oLast.op = "update" /\ oLast.id \in DOMAIN oPrev
  /\ oLast.body.status = Some("")
  /\ oLast.body.notes = Some("note")
  /\ oLast.status = ValidationFailure
  /\ oPrev[oLast.id].status = "cancelled"

\* C16: the cancel operation on an existing order in any status sets the
\* status to cancelled and keeps the record: the order can be read
\* afterwards and an update can set each of the other five statuses.
C16_CancelKeepsRecord ==
  (oLast.op = "cancel" /\ oLast.id \in DOMAIN oPrev) =>
    /\ oLast.status = Ok
    /\ DOMAIN orders = DOMAIN oPrev
    /\ orders[oLast.id].status = "cancelled"
    /\ GetOrder(oLast.id, orders).status = Ok
    /\ \A st \in SixStatuses \ {"cancelled"} :
         LET r == PutOrder(oLast.id, [status |-> Some(st), notes |-> None], orders, clock)
         IN r.status = Ok /\ r.orders[oLast.id].status = st

C16_Witness ==
  /\ oLast.op = "cancel" /\ oLast.status = Ok
  /\ oPrev[oLast.id].status = "shipped"
  /\ orders[oLast.id].status = "cancelled"

\* C17: statusUpdatedAt of an order equals the time of the most recent
\* request that changed its status; here for a cancel that changes the
\* status of an order to cancelled, which has to record its own time.
C17_StatusUpdatedAtTracksChange ==
  (/\ oLast.op = "cancel" /\ oLast.id \in DOMAIN oPrev
   /\ oPrev[oLast.id].status # "cancelled") =>
    /\ changedAt[oLast.id] = oLast.time
    /\ orders[oLast.id].statusUpdatedAt = changedAt[oLast.id]

(***************************************************************************)
(* Properties of the products.                                             *)
(***************************************************************************)
\* C18: no two stored products have the same productId, whatever the
\* interleaving; a create whose productId is already stored, be it found by
\* the existence check or only by the store at the insert, stores nothing
\* and answers with the duplicate-id error, never with the generic failure.
C18_ProductIdUnique ==
  /\ \A d1, d2 \in products : d1.productId = d2.productId => d1 = d2
  /\ (/\ pLast.op \in {"check", "create"}
      /\ ProductIdExists(pPrev, pLast.body.productId[1])) =>
       /\ products = pPrev
       /\ pLast.status \notin {0, Created, InternalFailure}
       /\ pLast.error = "Product ID already exists."

\* two creates of one productId both passed the existence check, and the
\* second one reached the store after the first was stored
C18_Witness ==
  /\ pLast.op = "create" /\ pLast.status = ValidationFailure
  /\ ProductIdExists(pPrev, pLast.body.productId[1])
  /\ Cardinality(products) = 1

\* C19: every stored product has price >= 0; a create or an update with a
\* negative price fails with ValidationFailure and stores nothing.
C19_PriceNonNegative ==
  /\ \A d \in products : d.price >= 0
  /\ (/\ pLast.op \in {"create", "update"}
      /\ Has(pLast.body.price) /\ pLast.body.price[1] < 0) =>
       (pLast.status = ValidationFailure /\ products = pPrev)

\* the product the last update selected, in the catalog before the update
UpdateTargets == FindProduct(pPrev, pLast.id)

\* the last update set exactly the supplied fields of doc and left every
\* other field of it, and every other product, as it was
MergedExactly(doc) ==
  \E new \in products :
    /\ new._id = doc._id
    /\ new.productId =
         IF Has(pLast.body.productId) THEN pLast.body.productId[1] ELSE doc.productId
    /\ new.name = IF Has(pLast.body.name) THEN pLast.body.name[1] ELSE doc.name
    /\ new.price = IF Has(pLast.body.price) THEN pLast.body.price[1] ELSE doc.price
    /\ new.description = doc.description
    /\ new.category = doc.category
    /\ products \ {new} = pPrev \ {doc}

\* C20 as stated: an update of an existing product with any subset of the
\* fields succeeds and merges exactly the supplied fields.
C20_PartialMerge ==
  (pLast.op = "update" /\ UpdateTargets # {}) =>
    /\ pLast.status = Ok
    /\ \A doc \in UpdateTargets : MergedExactly(doc)

\* C20: an update of an existing product that supplies a non-blank name and
\* any subset of the other fields, with no negative price and no productId
\* of another product, succeeds, sets exactly the supplied fields and leaves
\* every unsupplied field of that product, and every other product, unchanged.
C20_MergeWithName ==
  (/\ pLast.op = "update" /\ UpdateTargets # {}
   /\ Has(pLast.body.name) /\ Trim(pLast.body.name[1]) # <<>>
   /\ Has(pLast.body.price) => pLast.body.price[1] >= 0
   /\ Has(pLast.body.productId) =>
        \A d \in pPrev \ UpdateTargets : d.productId # pLast.body.productId[1]) =>
    /\ pLast.status = Ok
    /\ \A doc \in UpdateTargets : MergedExactly(doc)

\* an update with a name and no price renamed one of two stored products
C20_Witness ==
  /\ pLast.op = "update" /\ pLast.status = Ok
  /\ Has(pLast.body.name) /\ ~Has(pLast.body.price) /\ ~Has(pLast.body.productId)
  /\ Cardinality(pPrev) = 2
  /\ products # pPrev

\* the products whose productId is the identifier of the last request
ByProductId == {d \in pPrev : d.productId = pLast.id}

\* C21: a read, an update or a delete by identifier that gets past the
\* validation of its body acts on the stored product whose productId is the
\* identifier whenever there is one, also when the productId has the shape
\* of an object id, and answers NotFound with the catalog unchanged only
\* when there is none.
C21_LookupByProductId ==
  (pLast.op \in {"get", "update", "delete"} /\ pLast.status \in {Ok, NotFound}) =>
    /\ pLast.status = NotFound => (ByProductId = {} /\ products = pPrev)
    /\ \A doc \in ByProductId :
         /\ pLast.status = Ok
         /\ pLast.op = "get" => (pLast.product = Some(doc) /\ products = pPrev)
         /\ pLast.op = "update" => MergedExactly(doc)
         /\ pLast.op = "delete" => products = pPrev \ {doc}

(***************************************************************************)
(* Properties of the users.                                                *)
(***************************************************************************)
\* C22: a user record is never hard-deleted: every user that was registered
\* still exists after any sequence of user requests.
C22_UsersNeverDeleted == \A id \in DOMAIN InitUsers : id \in DOMAIN users

\* C25: a user update accepts a role exactly when it is one of user, admin
\* and customer: none of the three is refused as an invalid role, every
\* other non-empty role is rejected with ValidationFailure and the users
\* unchanged, and a stored role is always one of the three.
C25_RoleEnumeration ==
  /\ \A u \in DOMAIN users : users[u].role \in {"user", "admin", "customer"}
  /\ (/\ uLast.op = "update" /\ Truthy(uLast.body.role)
      /\ uLast.body.role[1] \in {"user", "admin", "customer"}) =>
       uLast.error # "Invalid role"
  /\ (/\ uLast.op = "update" /\ Truthy(uLast.body.role)
      /\ uLast.body.role[1] \notin {"user", "admin", "customer"}
      /\ uLast.status \notin {Conflict, NotFound}) =>
       (uLast.status = ValidationFailure /\ users = uPrev)

\* C24: every violation of a uniqueness constraint is reported as Conflict
\* and never as InternalFailure: a user update to an email of another user,
\* and a product create or update with the productId of another product,
\* also when only the store finds the duplicate.
C24_DuplicateIsConflict ==
  /\ (/\ uLast.op \in {"check", "write"}
      /\ \E u \in DOMAIN uPrev :
           u # uLast.id /\ uPrev[u].email = ToLower(uLast.body.email[1])) =>
       (uLast.status = Conflict /\ users = uPrev)
  /\ (/\ pLast.op \in {"check", "create"}
      /\ ProductIdExists(pPrev, pLast.body.productId[1])) =>
       (pLast.status = Conflict /\ products = pPrev)

C26_AtMostOneDefaultInterleaved == NumDefaults(addresses) <= 1

\* a request made its address the default and saved over a list another
\* request had saved with a different default after the first one had read
C26_Witness ==
  /\ rLast.kind = "commit"
  /\ rLast.before # rLast.base
  /\ NumDefaults(rLast.before) = 1
  /\ NumDefaults(addresses) = 1
  /\ Len(addresses) >= 1
  /\ \E i \in 1..Len(addresses) :
       /\ addresses[i].isDefault
       /\ \A j \in 1..Len(rLast.before) :
            rLast.before[j].isDefault => rLast.before[j]._id # addresses[i]._id

(***************************************************************************)
(* Structure of the address list.                                          *)
(***************************************************************************)
\* two addresses agree on every field but isDefault
SameButDefault(a, b) == [a EXCEPT !.isDefault = FALSE] = [b EXCEPT !.isDefault = FALSE]

\* C27: a successful add appends exactly one new address and keeps the
\* others in order with their other fields; a successful remove takes out
\* exactly the target and keeps the order of the others; a successful update
\* keeps length and order and changes no other field of any other address.
C27_ListStructure ==
  /\ (last.op = "add" /\ last.status = Created) =>
       /\ Len(addresses) = Len(prev) + 1
       /\ \A i \in 1..Len(prev) : SameButDefault(addresses[i], prev[i])
       /\ \A i \in 1..Len(prev) : prev[i]._id # addresses[Len(addresses)]._id
  /\ (last.op = "remove" /\ last.status = Ok) =>
       /\ TargetIdx > 0
       /\ Len(addresses) = Len(prev) - 1
       /\ \A i \in 1..Len(addresses) :
            SameButDefault(addresses[i], prev[IF i < TargetIdx THEN i ELSE i + 1])
  /\ (last.op = "update" /\ last.status = Ok) =>
       /\ TargetIdx > 0
       /\ Len(addresses) = Len(prev)
       /\ \A i \in 1..Len(prev) : addresses[i]._id = prev[i]._id
       /\ \A i \in 1..Len(prev) : i # TargetIdx => SameButDefault(addresses[i], prev[i])

\* the middle one of three addresses, not the default, was removed
C27_Witness ==
  /\ last.op = "remove" /\ last.status = Ok /\ Len(prev) = 3
  /\ TargetIdx = 2 /\ ~prev[2].isDefault
  /\ Len(addresses) = 2

(***************************************************************************)
(* Properties of the product forms and of the management page.             *)
(***************************************************************************)
\* C28: in the add-product form, whenever the image list is not empty the
\* primary image is the first image of the list.
C28_PrimaryIsFirstImage == Len(images) > 0 => image = images[1]

\* C29: the submit button is disabled (uploadingImages is true) in every
\* state in which an upload batch has not yet completed.
C29_UploadingWhileBatchOpen == Len(uploadBatches) > 0 => uploadingImages

\* C30: whenever the table is shown, 1 <= currentPage <= max(1, totalPages).
C30_CurrentPageInRange ==
  TableShown => (1 <= currentPage /\ currentPage <= Max(1, TotalPages(pageProducts)))
====
